---- MODULE Spec2Model ----
(***************************************************************************)
(* nixcraft-auth: the Microsoft -> Xbox Live -> XSTS -> Minecraft          *)
(* credential exchange of packages/nixcraft-auth/nixcraft_auth.py, with    *)
(* the three files it keeps under ~/.local/share/nixcraft/auth and the     *)
(* commands login, refresh, status, logout and token-path.                 *)
(*                                                                         *)
(* Every command is a process p that walks through the statements of its   *)
(* handler; a hop (one blocking requests.post / requests.get) is one step, *)
(* and so is each of open(path,'w'), write+close and os.chmod, because the *)
(* store is visible to other processes between them.  The clock advances   *)
(* between any two steps.                                                  *)
(***************************************************************************)
EXTENDS Integers, Sequences, FiniteSets, TLC

VARIABLES
    msFile,     \* microsoft_token.json
    mcFile,     \* minecraft_token.json
    atFile,     \* access_token
    now,        \* int(time.time())
    run,        \* per process: the command it runs, its position and locals
    seen        \* history: what the last status printed, and what rewrote the
                \* credential since

vars == <<msFile, mcFile, atFile, now, run, seen>>

----------------------------------------------------------------------------
\* Bounds of the model.

\* The clock runs over 0..MaxNow.
MaxNow == 1

\* Processes that may run a command.  Spec runs them one after another
\* (spec section 5: single process); only process 1 is used there.
Procs == {1, 2}

----------------------------------------------------------------------------
\* Program constants.

\* mc_response.get("expires_in", 86400)
McDefaultExpiresIn == 86400
\* ms_tokens.get("expires_in", 3600)
MsDefaultExpiresIn == 3600
\* os.chmod(path, 0o600)
Mode0600 == 6 * 64
\* what open(path,'w') gives a new file under the usual umask 022 (0o644)
ModeCreated == 6 * 64 + 4 * 8 + 4

MS_TOKEN_URL == "https://login.live.com/oauth20_token.srf"
XBL_AUTH_URL == "https://user.auth.xboxlive.com/user/authenticate"
XSTS_AUTH_URL == "https://xsts.auth.xboxlive.com/xsts/authorize"
MC_AUTH_URL == "https://api.minecraftservices.com/authentication/login_with_xbox"
MC_PROFILE_URL == "https://api.minecraftservices.com/minecraft/profile"

\* JSON null / Python None, as a value of a string field.
Null == "null"

----------------------------------------------------------------------------
\* Python dicts: a key that may be missing holds << >> or <<value>>.

Has(opt) == opt # << >>

\* dict.get(key, default)
Get(opt, default) == IF opt = << >> THEN default ELSE opt[1]

\* Python truthiness of a string-or-None: None and "" are falsy.
Truthy(s) == s # Null /\ s # ""

----------------------------------------------------------------------------
\* The files of the store.  data is << >> for an empty (just truncated)
\* file, <<content>> for a file holding what one write put there, and
\* <<content, Leftover>> for content followed by what is left of a longer
\* earlier content.  written is history: what the last write since the
\* last truncation handed over.

AbsentFile == [exists |-> FALSE, data |-> << >>, mode |-> 0, written |-> << >>]

\* the rest of an earlier, longer content behind a later, shorter one
Leftover == "leftover"

\* open(path, 'w'): creates the file, or truncates it keeping its mode.
OpenW(f) ==
    IF f.exists THEN [f EXCEPT !.data = << >>, !.written = << >>]
    ELSE [exists |-> TRUE, data |-> << >>, mode |-> ModeCreated, written |-> << >>]

\* f.write(...) / json.dump(..., f) and the close that flushes it, on the
\* file as this process truncated it, or on content no longer than the
\* new one.  The descriptor of a file unlinked meanwhile writes to no path.
WriteClose(f, content) ==
    IF f.exists THEN [f EXCEPT !.data = <<content>>, !.written = <<content>>] ELSE f

\* the same write from offset 0 over longer content that another process
\* wrote after this one's open(path, 'w'): the end of that content stays
TornWrite(f, content) ==
    [f EXCEPT !.data = <<content, Leftover>>, !.written = <<content>>]

\* what the write may leave: the lengths of the tokens decide
Written(f, content) ==
    {WriteClose(f, content)}
    \cup (IF f.exists /\ f.data # << >> THEN {TornWrite(f, content)} ELSE {})

\* Mutant: the mode is left as open() made it.
Chmod_Skipped(f) == f

\* os.chmod(path, 0o600)
Chmod(f) == [f EXCEPT !.mode = Mode0600]

\* path.unlink()
Unlink(f) == AbsentFile

----------------------------------------------------------------------------
\* The providers (external): what a hop may answer.  Every token the
\* providers hand out belongs to the account whose credential was presented.

Accounts == {"A", "B"}

\* the code= parameter of the pasted redirect URL, per account
GrantCode == [A |-> "codeA", B |-> "codeB"]
MsAccess == [A |-> {"MA1", "MA2"}, B |-> {"MB1", "MB2"}]
MsRefresh == [A |-> {"RA1", "RA2"}, B |-> {"RB1", "RB2"}]
XblTokens == [A |-> {"XA"}, B |-> {"XB"}]
UserHash == [A |-> {"HA"}, B |-> {"HB"}]
XstsTokens == [A |-> {"SA"}, B |-> {"SB"}]
McAccess == [A |-> {"MCA1", "MCA2"}, B |-> {"MCB1", "MCB2"}]
ProfileOf == [A |-> [id |-> "uuidA", name |-> "Steve"],
              B |-> [id |-> "uuidB", name |-> "Alex"]]

\* the account a credential belongs to
AcctOf(t) ==
    CHOOSE a \in Accounts :
        t = GrantCode[a] \/ t \in MsAccess[a] \/ t \in MsRefresh[a]
        \/ t \in XblTokens[a] \/ t \in UserHash[a] \/ t \in XstsTokens[a]
        \/ t \in McAccess[a]

\* expires_in of the token endpoint: omitted, or the provider's 3600
MsExpiresInChoices == {<< >>, <<MsDefaultExpiresIn>>}
\* expires_in of login_with_xbox: omitted, or a declared lifetime
McDeclaredExpiresIn == {1}
McExpiresInChoices == {<< >>} \cup {<<x>> : x \in McDeclaredExpiresIn}

\* A 2xx response: response.json()
Ok(j) == [kind |-> "ok", json |-> j]
\* A non-2xx response: raise_for_status() raises HTTPError
Rejected(status, text) == [kind |-> "http", status |-> status, text |-> text]
\* No response: requests raises ConnectionError
NetDown == [kind |-> "net"]

\* POST oauth20_token.srf (authorization_code or refresh_token grant)
TokenResponses(acct) ==
    {Ok([access_token |-> <<a>>, refresh_token |-> r, expires_in |-> x]) :
        a \in MsAccess[acct],
        r \in {<< >>} \cup {<<t>> : t \in MsRefresh[acct]},
        x \in MsExpiresInChoices}
    \cup {Ok([access_token |-> << >>, refresh_token |-> << >>, expires_in |-> << >>])}
    \cup {Rejected(400, "invalid_grant"), Rejected(400, "invalid_client"), NetDown}

\* POST user/authenticate
XblResponses(acct) ==
    {Ok([Token |-> <<t>>, uhs |-> <<h>>]) :
        t \in XblTokens[acct], h \in UserHash[acct]}
    \cup {Ok([Token |-> << >>, uhs |-> << >>])}
    \cup {Rejected(400, "bad ticket"), NetDown}

\* POST xsts/authorize
XstsResponses(acct) ==
    {Ok([Token |-> <<t>>]) : t \in XstsTokens[acct]}
    \cup {Ok([Token |-> << >>])}
    \cup {Rejected(401, "XErr 2148916233"), NetDown}

\* POST authentication/login_with_xbox
McResponses(acct) ==
    {Ok([access_token |-> <<t>>, expires_in |-> x]) :
        t \in McAccess[acct], x \in McExpiresInChoices}
    \cup {Ok([access_token |-> << >>, expires_in |-> << >>])}
    \cup {Rejected(403, "forbidden"), NetDown}

\* GET minecraft/profile
ProfileResponses(acct) ==
    {Ok([id |-> <<ProfileOf[acct].id>>, name |-> <<ProfileOf[acct].name>>,
         skins |-> s]) : s \in {<< >>}}
    \cup {Ok([id |-> << >>, name |-> << >>, skins |-> << >>])}
    \cup {Rejected(404, "NOT_FOUND"), NetDown}

----------------------------------------------------------------------------
\* Exceptions and how each command ends.

HTTPError(status, url, text) ==
    [type |-> "HTTPError", status |-> status, url |-> url, text |-> text]
ConnectionError(url) == [type |-> "ConnectionError", url |-> url]
KeyError(key) == [type |-> "KeyError", key |-> key]
JSONDecodeError == [type |-> "JSONDecodeError"]
FileNotFoundError == [type |-> "FileNotFoundError"]

\* str(e) of the HTTPError raise_for_status() raises:
\* "<status> Client Error: <reason> for url: <url>"
StrOf(e) == <<e.status, e.url>>

\* requests.post / requests.get, raise_for_status(), response.json()
Call(url, resp) ==
    CASE resp.kind = "ok" -> [raised |-> FALSE, json |-> resp.json]
      [] resp.kind = "http" ->
            [raised |-> TRUE, exc |-> HTTPError(resp.status, url, resp.text)]
      [] OTHER -> [raised |-> TRUE, exc |-> ConnectionError(url)]

\* login's except clause: what is echoed to stderr
LoginExcept(e) ==
    << <<"Authentication failed", StrOf(e)>>, <<"Response", e.text>> >>

\* refresh's except clause
RefreshExcept(e) ==
    << <<"Refresh failed", StrOf(e)>>,
       <<"You may need to run 'nixcraft-auth login' again.">> >>

\* An exception no except clause catches: the interpreter prints the
\* traceback and the process exits 1.
Uncaught(e) == << <<"Traceback", e.type>> >>

----------------------------------------------------------------------------
\* A process.

IdleRun ==
    [cmd |-> "none", pc |-> "idle",
     code |-> "",          \* login: code
     stored |-> << >>,     \* refresh: ms_tokens as loaded
     msrec |-> << >>,      \* the dict handed to save_tokens(.., "microsoft_token.json")
     ms_access |-> "",     \* the argument of full_auth_flow
     xbl_token |-> "", user_hash |-> "", xsts_token |-> "",
     mc_access_token |-> "", mc_expires_in |-> 0,
     profile |-> << >>,
     mc_data |-> << >>,
     trace |-> << >>,      \* history: the hops of this run, request and response
     hops |-> << >>,       \* history: the hops issued by this run and how each was answered
     issuedAt |-> 0,       \* history: the clock when login_with_xbox answered
     declared |-> << >>,   \* history: the expires_in login_with_xbox declared, if any
     minted |-> << >>,     \* history: what login_with_xbox and the profile hop answered
     now_read |-> 0,       \* status: now
     pre |-> << >>,        \* history: minecraft_token.json and access_token at the start
     had_refresh |-> FALSE, \* history: login started over a stored refresh token
     idx |-> 0,            \* logout: the position of the for loop in files
     removed |-> 0,        \* logout: removed
     exit |-> 0 - 1,       \* exit code, -1 while running
     handled |-> TRUE,     \* FALSE when the process died of an uncaught exception
     exc |-> << >>,        \* the exception that ended the run
     out |-> << >>, err |-> << >>]

\* what a command sees of the store when it starts
Snapshot == <<[mc |-> mcFile, at |-> atFile]>>

\* history: the three files as logout finds them
StoreSnapshot == <<[ms |-> msFile, mc |-> mcFile, at |-> atFile]>>

\* the credentials a 2xx response carries (of the keys given)
Tokens(resp, keys) ==
    IF resp.kind = "ok" THEN [k \in keys |-> resp.json[k]] ELSE << >>

\* history: the access_token login_with_xbox answered and the name and id
\* the profile hop answered, once both have
Minted(t) ==
    IF Len(t) = 5 /\ t[4].kind = "ok" /\ t[5].kind = "ok"
    THEN <<[access_token |-> t[4].got.access_token,
            name |-> t[5].got.name, id |-> t[5].got.id]>>
    ELSE << >>

\* append a hop to the run's history: the request, how it was answered and
\* the credentials the answer carried
Logged(r, hop, sent, resp, keys) ==
    [r EXCEPT !.trace = Append(@, [hop |-> hop, sent |-> sent,
                                    kind |-> resp.kind, got |-> Tokens(resp, keys)]),
              !.hops = Append(@, [hop |-> hop, kind |-> resp.kind])]

\* the run ends with exception e: the except clause of login / refresh
\* catches requests.HTTPError, nothing else
Raised(r, e) ==
    LET caught == e.type = "HTTPError" /\ r.cmd \in {"login", "refresh"}
    IN [r EXCEPT !.pc = "failed", !.exit = 1, !.exc = <<e>>,
                 !.handled = caught,
                 !.err = IF ~caught THEN Uncaught(e)
                         ELSE IF r.cmd = "login" THEN LoginExcept(e)
                         ELSE RefreshExcept(e)]

\* the history of status reports: not kept (Spec), or nothing printed yet
Unwatched == [on |-> FALSE, last |-> << >>, by |-> "none"]
Watched == [on |-> TRUE, last |-> << >>, by |-> "none"]

\* what a finished status printed about the token: its "Token:" line, if
\* it printed one ("Not logged in" has none)
ReportOf(r) ==
    IF r.out # << >> /\ r.out[1].logged_in THEN <<r.out[1].token>> ELSE << >>

\* history: the status process r ends, its report is the last one printed
Reported(r) ==
    IF seen.on THEN [seen EXCEPT !.last = ReportOf(r), !.by = "none"] ELSE seen

\* history: command cmd rewrites or removes minecraft_token.json.  Nothing
\* is kept of the reports before a refresh.
Rewritten(cmd) ==
    IF ~seen.on \/ seen.last = << >> THEN seen
    ELSE IF cmd = "refresh" THEN Watched
    ELSE [seen EXCEPT !.by = cmd]

\* the store before the first command: an empty data directory
EmptyStore ==
    /\ msFile = AbsentFile
    /\ mcFile = AbsentFile
    /\ atFile = AbsentFile
    /\ now = 0
    /\ run = [p \in Procs |-> IdleRun]

Init ==
    /\ EmptyStore
    /\ seen = Unwatched

\* time passes
Tick ==
    /\ now < MaxNow
    /\ now' = now + 1
    /\ UNCHANGED <<msFile, mcFile, atFile, run, seen>>

----------------------------------------------------------------------------
\* The requests of the five hops, as far as they carry a credential.

\* exchange_code_for_token(code): the form body
ExchangeRequest(code) ==
    [url |-> MS_TOKEN_URL, grant_type |-> "authorization_code", code |-> code]

\* refresh_microsoft_token(refresh_token): the form body
RefreshRequest(refresh_token) ==
    [url |-> MS_TOKEN_URL, grant_type |-> "refresh_token", refresh_token |-> refresh_token]

\* xbox_live_auth(ms_access_token): "RpsTicket": f"d={ms_access_token}"
XblRequest(ms_access_token) ==
    [url |-> XBL_AUTH_URL, RpsTicket |-> <<"d=", ms_access_token>>]

\* xsts_auth(xbl_token): "UserTokens": [xbl_token]
XstsRequest(xbl_token) ==
    [url |-> XSTS_AUTH_URL, UserTokens |-> <<xbl_token>>]

\* Mutant: the two arguments of minecraft_auth swapped.
McRequest_Swapped(xsts_token, user_hash) ==
    [url |-> MC_AUTH_URL, identityToken |-> <<"XBL3.0 x=", xsts_token, ";", user_hash>>]

\* minecraft_auth(xsts_token, user_hash):
\* "identityToken": f"XBL3.0 x={user_hash};{xsts_token}"
McRequest(xsts_token, user_hash) ==
    [url |-> MC_AUTH_URL, identityToken |-> <<"XBL3.0 x=", user_hash, ";", xsts_token>>]

\* get_minecraft_profile(mc_access_token): "Authorization": f"Bearer {mc_access_token}"
ProfileRequest(mc_access_token) ==
    [url |-> MC_PROFILE_URL, Authorization |-> <<"Bearer ", mc_access_token>>]

\* The account the provider sees in a request.
RequestAcct(sent) ==
    CASE sent.url = MS_TOKEN_URL ->
            AcctOf(IF sent.grant_type = "refresh_token" THEN sent.refresh_token ELSE sent.code)
      [] sent.url = XBL_AUTH_URL -> AcctOf(sent.RpsTicket[2])
      [] sent.url = XSTS_AUTH_URL -> AcctOf(sent.UserTokens[1])
      [] sent.url = MC_AUTH_URL -> AcctOf(sent.identityToken[4])
      [] OTHER -> AcctOf(sent.Authorization[2])

----------------------------------------------------------------------------
\* The records the commands persist.

\* login: the dict saved as microsoft_token.json
LoginMsRecord(ms_tokens, t) ==
    [access_token |-> ms_tokens.access_token[1],
     refresh_token |-> Get(ms_tokens.refresh_token, Null),
     expires_at |-> t + Get(ms_tokens.expires_in, MsDefaultExpiresIn)]

\* Mutant: refresh takes refresh_token as login does, with no fallback to
\* the stored one.
RefreshMsRecord_NoCarry(new_ms_tokens, ms_tokens, t) ==
    [access_token |-> new_ms_tokens.access_token[1],
     refresh_token |-> Get(new_ms_tokens.refresh_token, Null),
     expires_at |-> t + Get(new_ms_tokens.expires_in, MsDefaultExpiresIn)]

\* refresh: the dict saved as microsoft_token.json
RefreshMsRecord(new_ms_tokens, ms_tokens, t) ==
    [access_token |-> new_ms_tokens.access_token[1],
     refresh_token |-> Get(new_ms_tokens.refresh_token, ms_tokens.refresh_token),
     expires_at |-> t + Get(new_ms_tokens.expires_in, MsDefaultExpiresIn)]

\* Mutant: refresh runs the chain on the access token it loaded.
RefreshFlowArg_Stale(new_ms_tokens, ms_tokens) == ms_tokens.access_token

\* refresh: the argument of full_auth_flow
RefreshFlowArg(new_ms_tokens, ms_tokens) == new_ms_tokens.access_token[1]

\* Mutant: username and uuid taken from each other's field.
McData_NameAndIdSwapped(mc_access_token, mc_expires_in, profile, t) ==
    [access_token |-> mc_access_token,
     expires_at |-> t + mc_expires_in,
     username |-> profile.id[1],
     uuid |-> profile.name[1],
     skins |-> Get(profile.skins, "[]")]

\* full_auth_flow: the dict it returns, built at clock t
McData(mc_access_token, mc_expires_in, profile, t) ==
    [access_token |-> mc_access_token,
     expires_at |-> t + mc_expires_in,
     username |-> profile.name[1],
     uuid |-> profile.id[1],
     skins |-> Get(profile.skins, "[]")]

----------------------------------------------------------------------------
\* login

\* what parse_qs(urlparse(redirect_url).query) may hold under "code"
PastedCodes == {<< >>} \cup {<<GrantCode[a]>> : a \in Accounts}

\* Mutant: a URL without code= yields the empty code instead of the exit.
LoginBegin_EmptyCode(p) ==
    /\ run[p].pc = "idle"
    /\ \E params \in PastedCodes :
        run' = [run EXCEPT ![p] =
            [IdleRun EXCEPT !.cmd = "login", !.pc = "exchange",
                            !.pre = Snapshot, !.code = Get(params, "")]]
    /\ UNCHANGED <<msFile, mcFile, atFile, now, seen>>

\* login, up to the try block: prompt for the URL, take its code
\* microsoft_token.json holds a refresh token
RefreshTokenStored ==
    msFile.exists /\ Len(msFile.data) = 1 /\ Truthy(msFile.data[1].refresh_token)

LoginBegin(p) ==
    /\ run[p].pc = "idle"
    /\ \E params \in PastedCodes :
        run' = [run EXCEPT ![p] =
            IF ~Has(params)
            THEN [IdleRun EXCEPT !.cmd = "login", !.pc = "failed", !.exit = 1,
                                 !.pre = StoreSnapshot,
                                 !.err = << <<"Error: No authorization code found in URL.">> >>]
            ELSE [IdleRun EXCEPT !.cmd = "login", !.pc = "exchange",
                                 !.pre = Snapshot,
                                 !.had_refresh = RefreshTokenStored,
                                 !.code = params[1]]]
    /\ UNCHANGED <<msFile, mcFile, atFile, now, seen>>

\* Mutant: a response without refresh_token keeps the refresh token that
\* microsoft_token.json held.
AfterExchange_MergesStored(r, resp, t) ==
    LET r1 == Logged(r, "exchange", ExchangeRequest(r.code), resp,
                     {"access_token", "refresh_token"})
        c == Call(MS_TOKEN_URL, resp)
    IN IF c.raised THEN Raised(r1, c.exc)
       ELSE IF ~Has(c.json.access_token) THEN Raised(r1, KeyError("access_token"))
       ELSE [r1 EXCEPT !.pc = "ms_open",
                       !.msrec = <<[LoginMsRecord(c.json, t) EXCEPT
                            !.refresh_token =
                                IF @ = Null /\ RefreshTokenStored
                                THEN msFile.data[1].refresh_token ELSE @]>>,
                       !.ms_access = c.json.access_token[1]]

\* the run after ms_tokens = exchange_code_for_token(code) was answered resp
\* at clock t: the dict to save is built, or the run has failed
AfterExchange(r, resp, t) ==
    LET r1 == Logged(r, "exchange", ExchangeRequest(r.code), resp,
                     {"access_token", "refresh_token"})
        c == Call(MS_TOKEN_URL, resp)
    IN IF c.raised THEN Raised(r1, c.exc)
       ELSE IF ~Has(c.json.access_token) THEN Raised(r1, KeyError("access_token"))
       ELSE [r1 EXCEPT !.pc = "ms_open",
                       !.msrec = <<LoginMsRecord(c.json, t)>>,
                       !.ms_access = c.json.access_token[1]]

\* Mutant: login goes on to full_auth_flow without saving ms_tokens.
LoginExchange_SkipsSave(p) ==
    /\ run[p].cmd = "login" /\ run[p].pc = "exchange"
    /\ \E resp \in TokenResponses(RequestAcct(ExchangeRequest(run[p].code))) :
        run' = [run EXCEPT ![p] =
                    [AfterExchange(run[p], resp, now) EXCEPT
                        !.pc = IF @ = "ms_open" THEN "xbl" ELSE @]]
    /\ UNCHANGED <<msFile, mcFile, atFile, now, seen>>

LoginExchange(p) ==
    /\ run[p].cmd = "login" /\ run[p].pc = "exchange"
    /\ \E resp \in TokenResponses(RequestAcct(ExchangeRequest(run[p].code))) :
        run' = [run EXCEPT ![p] = AfterExchange(run[p], resp, now)]
    /\ UNCHANGED <<msFile, mcFile, atFile, now, seen>>

----------------------------------------------------------------------------
\* refresh

\* load_tokens(filename): None when the file is absent; json.load raises on
\* an empty file and on content followed by the rest of another
LoadTokens(f) ==
    IF ~f.exists THEN [raised |-> FALSE, val |-> << >>]
    ELSE IF Len(f.data) # 1 THEN [raised |-> TRUE, exc |-> JSONDecodeError]
    ELSE [raised |-> FALSE, val |-> f.data]

\* Mutant: the guard tests the record only, not its refresh_token.
RefreshBegin_NoTokenTest(p) ==
    /\ run[p].pc = "idle"
    /\ LET l == LoadTokens(msFile)
           r == [IdleRun EXCEPT !.cmd = "refresh", !.pre = StoreSnapshot]
       IN run' = [run EXCEPT ![p] =
            IF l.raised THEN Raised(r, l.exc)
            ELSE IF ~Has(l.val)
            THEN [r EXCEPT !.pc = "failed", !.exit = 1,
                           !.err = << <<"No refresh token found. Please run 'nixcraft-auth login' first.">> >>]
            ELSE [r EXCEPT !.pc = "refresh_hop", !.stored = l.val]]
    /\ UNCHANGED <<msFile, mcFile, atFile, now, seen>>

\* refresh, up to the try block
RefreshBegin(p) ==
    /\ run[p].pc = "idle"
    /\ LET l == LoadTokens(msFile)
           r == [IdleRun EXCEPT !.cmd = "refresh", !.pre = StoreSnapshot]
       IN run' = [run EXCEPT ![p] =
            IF l.raised THEN Raised(r, l.exc)
            ELSE IF ~Has(l.val) \/ ~Truthy(l.val[1].refresh_token)
            THEN [r EXCEPT !.pc = "failed", !.exit = 1,
                           !.err = << <<"No refresh token found. Please run 'nixcraft-auth login' first.">> >>]
            ELSE [r EXCEPT !.pc = "refresh_hop", !.stored = l.val]]
    /\ UNCHANGED <<msFile, mcFile, atFile, now, seen>>

\* the run after new_ms_tokens = refresh_microsoft_token(..) was answered
AfterRefresh(r, resp, t) ==
    LET ms_tokens == r.stored[1]
        r1 == Logged(r, "refresh", RefreshRequest(ms_tokens.refresh_token), resp,
                     {"access_token", "refresh_token"})
        c == Call(MS_TOKEN_URL, resp)
    IN IF c.raised THEN Raised(r1, c.exc)
       ELSE IF ~Has(c.json.access_token) THEN Raised(r1, KeyError("access_token"))
       ELSE [r1 EXCEPT !.pc = "ms_open",
                       !.msrec = <<RefreshMsRecord(c.json, ms_tokens, t)>>,
                       !.ms_access = RefreshFlowArg(c.json, ms_tokens)]

\* Mutant: refresh goes on to full_auth_flow without saving new_ms_tokens.
RefreshHop_SkipsSave(p) ==
    /\ run[p].cmd = "refresh" /\ run[p].pc = "refresh_hop"
    /\ \E resp \in TokenResponses(RequestAcct(RefreshRequest(run[p].stored[1].refresh_token))) :
        run' = [run EXCEPT ![p] =
                    [AfterRefresh(run[p], resp, now) EXCEPT
                        !.pc = IF @ = "ms_open" THEN "xbl" ELSE @]]
    /\ UNCHANGED <<msFile, mcFile, atFile, now, seen>>

RefreshHop(p) ==
    /\ run[p].cmd = "refresh" /\ run[p].pc = "refresh_hop"
    /\ \E resp \in TokenResponses(RequestAcct(RefreshRequest(run[p].stored[1].refresh_token))) :
        run' = [run EXCEPT ![p] = AfterRefresh(run[p], resp, now)]
    /\ UNCHANGED <<msFile, mcFile, atFile, now, seen>>

----------------------------------------------------------------------------
\* save_tokens({...}, "microsoft_token.json"), in login and in refresh

MsOpen(p) ==
    /\ run[p].pc = "ms_open"
    /\ msFile' = OpenW(msFile)
    /\ run' = [run EXCEPT ![p].pc = "ms_write"]
    /\ UNCHANGED <<mcFile, atFile, now, seen>>

MsWrite(p) ==
    /\ run[p].pc = "ms_write"
    /\ msFile' \in Written(msFile, run[p].msrec[1])
    /\ run' = [run EXCEPT ![p].pc = "ms_chmod"]
    /\ UNCHANGED <<mcFile, atFile, now, seen>>

\* os.chmod, then on to full_auth_flow
MsChmod(p) ==
    /\ run[p].pc = "ms_chmod"
    /\ IF msFile.exists
       THEN /\ msFile' = Chmod(msFile)
            /\ run' = [run EXCEPT ![p].pc = "xbl", ![p].msrec = << >>]
       ELSE /\ msFile' = msFile
            /\ run' = [run EXCEPT ![p] = Raised(@, FileNotFoundError)]
    /\ UNCHANGED <<mcFile, atFile, now, seen>>

----------------------------------------------------------------------------
\* full_auth_flow(ms_access_token)

\* xbl_response = xbox_live_auth(ms_access_token); xbl_token, user_hash
AfterXbl(r, resp) ==
    LET r1 == Logged(r, "xbl", XblRequest(r.ms_access), resp, {"Token", "uhs"})
        c == Call(XBL_AUTH_URL, resp)
    IN IF c.raised THEN Raised(r1, c.exc)
       ELSE IF ~Has(c.json.Token) THEN Raised(r1, KeyError("Token"))
       ELSE IF ~Has(c.json.uhs) THEN Raised(r1, KeyError("uhs"))
       ELSE [r1 EXCEPT !.pc = "xsts",
                       !.xbl_token = c.json.Token[1],
                       !.user_hash = c.json.uhs[1]]

XblHop(p) ==
    /\ run[p].pc = "xbl"
    /\ \E resp \in XblResponses(RequestAcct(XblRequest(run[p].ms_access))) :
        run' = [run EXCEPT ![p] = AfterXbl(run[p], resp)]
    /\ UNCHANGED <<msFile, mcFile, atFile, now, seen>>

\* xsts_response = xsts_auth(xbl_token); xsts_token
AfterXsts(r, resp) ==
    LET r1 == Logged(r, "xsts", XstsRequest(r.xbl_token), resp, {"Token"})
        c == Call(XSTS_AUTH_URL, resp)
    IN IF c.raised THEN Raised(r1, c.exc)
       ELSE IF ~Has(c.json.Token) THEN Raised(r1, KeyError("Token"))
       ELSE [r1 EXCEPT !.pc = "mcauth", !.xsts_token = c.json.Token[1]]

XstsHop(p) ==
    /\ run[p].pc = "xsts"
    /\ \E resp \in XstsResponses(RequestAcct(XstsRequest(run[p].xbl_token))) :
        run' = [run EXCEPT ![p] = AfterXsts(run[p], resp)]
    /\ UNCHANGED <<msFile, mcFile, atFile, now, seen>>

\* mc_response = minecraft_auth(xsts_token, user_hash); mc_access_token,
\* mc_expires_in
AfterMcAuth(r, resp, t) ==
    LET r1 == Logged(r, "mcauth", McRequest(r.xsts_token, r.user_hash), resp,
                     {"access_token"})
        c == Call(MC_AUTH_URL, resp)
    IN IF c.raised THEN Raised(r1, c.exc)
       ELSE IF ~Has(c.json.access_token) THEN Raised(r1, KeyError("access_token"))
       ELSE [r1 EXCEPT !.pc = "profile",
                       !.mc_access_token = c.json.access_token[1],
                       !.mc_expires_in = Get(c.json.expires_in, McDefaultExpiresIn),
                       !.issuedAt = t,
                       !.declared = c.json.expires_in]

\* Mutant: the access_token file is written as soon as login_with_xbox
\* has answered, before the profile is fetched.
McAuthHop_WritesBearer(p) ==
    /\ run[p].pc = "mcauth"
    /\ \E resp \in McResponses(RequestAcct(McRequest(run[p].xsts_token, run[p].user_hash))) :
        /\ run' = [run EXCEPT ![p] = AfterMcAuth(run[p], resp, now)]
        /\ atFile' = IF run'[p].pc = "profile"
                     THEN Chmod(WriteClose(OpenW(atFile), run'[p].mc_access_token))
                     ELSE atFile
    /\ UNCHANGED <<msFile, mcFile, now, seen>>

McAuthHop(p) ==
    /\ run[p].pc = "mcauth"
    /\ \E resp \in McResponses(RequestAcct(McRequest(run[p].xsts_token, run[p].user_hash))) :
        run' = [run EXCEPT ![p] = AfterMcAuth(run[p], resp, now)]
    /\ UNCHANGED <<msFile, mcFile, atFile, now, seen>>

\* profile = get_minecraft_profile(mc_access_token)
AfterProfile(r, resp) ==
    LET r1 == Logged(r, "profile", ProfileRequest(r.mc_access_token), resp,
                     {"id", "name"})
        c == Call(MC_PROFILE_URL, resp)
    IN IF c.raised THEN Raised(r1, c.exc)
       ELSE [r1 EXCEPT !.pc = "ret", !.profile = <<c.json>>]

\* Mutant: a failed profile fetch is swallowed and the credential saved
\* with placeholder names.
ProfileHop_SwallowsError(p) ==
    /\ run[p].pc = "profile"
    /\ \E resp \in ProfileResponses(RequestAcct(ProfileRequest(run[p].mc_access_token))) :
        run' = [run EXCEPT ![p] =
            IF resp.kind = "ok" THEN AfterProfile(run[p], resp)
            ELSE [Logged(run[p], "profile", ProfileRequest(run[p].mc_access_token),
                         resp, {"id", "name"})
                    EXCEPT !.pc = "ret",
                           !.profile = <<[id |-> <<"Unknown">>, name |-> <<"Unknown">>,
                                          skins |-> << >>]>>]]
    /\ UNCHANGED <<msFile, mcFile, atFile, now, seen>>

ProfileHop(p) ==
    /\ run[p].pc = "profile"
    /\ \E resp \in ProfileResponses(RequestAcct(ProfileRequest(run[p].mc_access_token))) :
        run' = [run EXCEPT ![p] = AfterProfile(run[p], resp)]
    /\ UNCHANGED <<msFile, mcFile, atFile, now, seen>>

\* Mutant: full_auth_flow returns the XSTS token as access_token.
FlowReturn_ReturnsXsts(p) ==
    /\ run[p].pc = "ret"
    /\ LET r == run[p]
           profile == r.profile[1]
       IN run' = [run EXCEPT ![p] =
            IF ~Has(profile.name) THEN Raised(r, KeyError("name"))
            ELSE IF ~Has(profile.id) THEN Raised(r, KeyError("id"))
            ELSE [r EXCEPT !.pc = "mc_open",
                           !.mc_data = <<McData(r.xsts_token, r.mc_expires_in, profile, now)>>,
                           !.xbl_token = "", !.user_hash = "", !.xsts_token = "",
                           !.mc_access_token = "", !.mc_expires_in = 0,
                           !.profile = << >>, !.ms_access = "",
                           !.minted = Minted(r.trace),
                           !.had_refresh = FALSE,
                           !.trace = << >>, !.pre = << >>]]
    /\ UNCHANGED <<msFile, mcFile, atFile, now, seen>>

\* the return statement of full_auth_flow: the dict that becomes mc_data.
\* The locals of full_auth_flow end here.
FlowReturn(p) ==
    /\ run[p].pc = "ret"
    /\ LET r == run[p]
           profile == r.profile[1]
       IN run' = [run EXCEPT ![p] =
            IF ~Has(profile.name) THEN Raised(r, KeyError("name"))
            ELSE IF ~Has(profile.id) THEN Raised(r, KeyError("id"))
            ELSE [r EXCEPT !.pc = "mc_open",
                           !.mc_data = <<McData(r.mc_access_token, r.mc_expires_in, profile, now)>>,
                           !.xbl_token = "", !.user_hash = "", !.xsts_token = "",
                           !.mc_access_token = "", !.mc_expires_in = 0,
                           !.profile = << >>, !.ms_access = "",
                           !.minted = Minted(r.trace),
                           !.had_refresh = FALSE,
                           !.trace = << >>, !.pre = << >>]]
    /\ UNCHANGED <<msFile, mcFile, atFile, now, seen>>

----------------------------------------------------------------------------
\* save_tokens(mc_data, "minecraft_token.json"), in login and in refresh

McOpen(p) ==
    /\ run[p].pc = "mc_open"
    /\ mcFile' = OpenW(mcFile)
    /\ run' = [run EXCEPT ![p].pc = "mc_write"]
    /\ seen' = Rewritten(run[p].cmd)
    /\ UNCHANGED <<msFile, atFile, now>>

McWrite(p) ==
    /\ run[p].pc = "mc_write"
    /\ mcFile' \in Written(mcFile, run[p].mc_data[1])
    /\ run' = [run EXCEPT ![p].pc = "mc_chmod"]
    /\ UNCHANGED <<msFile, atFile, now, seen>>

McChmod(p) ==
    /\ run[p].pc = "mc_chmod"
    /\ IF mcFile.exists
       THEN /\ mcFile' = Chmod(mcFile)
            /\ run' = [run EXCEPT ![p].pc = "at_open",
                                  ![p].issuedAt = 0, ![p].declared = << >>]
       ELSE /\ mcFile' = mcFile
            /\ run' = [run EXCEPT ![p] = Raised(@, FileNotFoundError)]
    /\ UNCHANGED <<msFile, atFile, now, seen>>

\* the access_token file: open(token_path, 'w'), f.write, os.chmod
AtOpen(p) ==
    /\ run[p].pc = "at_open"
    /\ atFile' = OpenW(atFile)
    /\ run' = [run EXCEPT ![p].pc = "at_write"]
    /\ UNCHANGED <<msFile, mcFile, now, seen>>

AtWrite(p) ==
    /\ run[p].pc = "at_write"
    /\ atFile' \in Written(atFile, run[p].mc_data[1].access_token)
    /\ run' = [run EXCEPT ![p].pc = "at_chmod"]
    /\ UNCHANGED <<msFile, mcFile, now, seen>>

\* os.chmod(token_path, 0o600) and the closing echo of login / refresh
AtChmod(p) ==
    /\ run[p].pc = "at_chmod"
    /\ IF atFile.exists
       THEN /\ atFile' = Chmod(atFile)
            /\ run' = [run EXCEPT ![p].pc = "done", ![p].exit = 0,
                    ![p].out = IF run[p].cmd = "login"
                               THEN <<"Logged in as", run[p].mc_data[1].username,
                                      run[p].mc_data[1].uuid>>
                               ELSE <<"Tokens refreshed for", run[p].mc_data[1].username>>]
       ELSE /\ atFile' = atFile
            /\ run' = [run EXCEPT ![p] = Raised(@, FileNotFoundError)]
    /\ UNCHANGED <<msFile, mcFile, now, seen>>

----------------------------------------------------------------------------
\* status

\* Mutant: the token counts as valid at the very second it expires.
TokenLine_Inclusive(expires_at, t) ==
    LET remaining == expires_at - t
    IN IF expires_at >= t
       THEN [state |-> "Valid", hours |-> remaining \div 3600,
             minutes |-> (remaining % 3600) \div 60]
       ELSE [state |-> "Expired", hours |-> 0, minutes |-> 0]

\* Mutant: hours taken with % where the code has //.
TokenLine_ModHours(expires_at, t) ==
    LET remaining == expires_at - t
    IN IF expires_at > t
       THEN [state |-> "Valid", hours |-> remaining % 3600,
             minutes |-> (remaining % 3600) \div 60]
       ELSE [state |-> "Expired", hours |-> 0, minutes |-> 0]

\* the "Token:" line of status for expires_at at clock t
TokenLine(expires_at, t) ==
    LET remaining == expires_at - t
    IN IF expires_at > t
       THEN [state |-> "Valid", hours |-> remaining \div 3600,
             minutes |-> (remaining % 3600) \div 60]
       ELSE [state |-> "Expired", hours |-> 0, minutes |-> 0]

\* Mutant: status renews an expired credential by itself.
Status_AutoRefresh(p) ==
    /\ run[p].pc = "idle"
    /\ LET l == LoadTokens(mcFile)
           r == [IdleRun EXCEPT !.cmd = "status", !.pre = StoreSnapshot]
           shown == [r EXCEPT !.pc = "done", !.exit = 0, !.now_read = now,
                              !.out = <<[logged_in |-> TRUE,
                                         username |-> l.val[1].username,
                                         uuid |-> l.val[1].uuid,
                                         token |-> TokenLine(l.val[1].expires_at, now)]>>]
       IN run' = [run EXCEPT ![p] =
            IF l.raised THEN Raised(r, l.exc)
            ELSE IF ~Has(l.val)
            THEN [r EXCEPT !.pc = "done", !.exit = 0,
                           !.out = <<[logged_in |-> FALSE]>>]
            ELSE IF l.val[1].expires_at <= now /\ msFile.exists /\ msFile.data # << >>
            THEN Logged(shown, "refresh", RefreshRequest(msFile.data[1].refresh_token),
                        NetDown, {})
            ELSE shown]
    /\ UNCHANGED <<msFile, mcFile, atFile, now, seen>>

\* status: one read of minecraft_token.json, one of the clock
Status(p) ==
    /\ run[p].pc = "idle"
    /\ LET l == LoadTokens(mcFile)
           r == [IdleRun EXCEPT !.cmd = "status", !.pre = StoreSnapshot]
       IN run' = [run EXCEPT ![p] =
            IF l.raised THEN Raised(r, l.exc)
            ELSE IF ~Has(l.val)
            THEN [r EXCEPT !.pc = "done", !.exit = 0,
                           !.out = <<[logged_in |-> FALSE]>>]
            ELSE [r EXCEPT !.pc = "done", !.exit = 0, !.now_read = now,
                           !.out = <<[logged_in |-> TRUE,
                                      username |-> l.val[1].username,
                                      uuid |-> l.val[1].uuid,
                                      token |-> TokenLine(l.val[1].expires_at, now)]>>]]
    /\ UNCHANGED <<msFile, mcFile, atFile, now, seen>>

----------------------------------------------------------------------------
\* logout

\* files = ["microsoft_token.json", "minecraft_token.json", "access_token"]
LogoutBegin(p) ==
    /\ run[p].pc = "idle"
    /\ run' = [run EXCEPT ![p] =
            [IdleRun EXCEPT !.cmd = "logout", !.pc = "unlink", !.idx = 1,
                            !.pre = StoreSnapshot]]
    /\ UNCHANGED <<msFile, mcFile, atFile, now, seen>>

\* Mutant: path.unlink() without the test of path.exists().
LogoutUnlink_NoExistsTest(p) ==
    /\ run[p].pc = "unlink"
    /\ run[p].idx \in 1..3
    /\ LET i == run[p].idx
           f == CASE i = 1 -> msFile [] i = 2 -> mcFile [] OTHER -> atFile
       IN /\ msFile' = IF i = 1 THEN Unlink(msFile) ELSE msFile
          /\ mcFile' = IF i = 2 THEN Unlink(mcFile) ELSE mcFile
          /\ atFile' = IF i = 3 THEN Unlink(atFile) ELSE atFile
          /\ run' = [run EXCEPT ![p] =
                        IF f.exists THEN [@ EXCEPT !.idx = i + 1, !.removed = @ + 1]
                        ELSE Raised(@, FileNotFoundError)]
          /\ seen' = IF i = 2 /\ f.exists THEN Rewritten("logout") ELSE seen
    /\ UNCHANGED now

\* one round of the for loop: if path.exists(): path.unlink(); removed += 1
LogoutUnlink(p) ==
    /\ run[p].pc = "unlink"
    /\ run[p].idx \in 1..3
    /\ LET i == run[p].idx
           f == CASE i = 1 -> msFile [] i = 2 -> mcFile [] OTHER -> atFile
       IN /\ msFile' = IF i = 1 /\ f.exists THEN Unlink(msFile) ELSE msFile
          /\ mcFile' = IF i = 2 /\ f.exists THEN Unlink(mcFile) ELSE mcFile
          /\ atFile' = IF i = 3 /\ f.exists THEN Unlink(atFile) ELSE atFile
          /\ run' = [run EXCEPT ![p].idx = i + 1,
                                ![p].removed = IF f.exists THEN @ + 1 ELSE @]
          /\ seen' = IF i = 2 /\ f.exists THEN Rewritten("logout") ELSE seen
    /\ UNCHANGED now

\* the echo after the loop
LogoutEcho(p) ==
    /\ run[p].pc = "unlink"
    /\ run[p].idx = 4
    /\ run' = [run EXCEPT ![p].pc = "done", ![p].exit = 0,
                          ![p].out = IF run[p].removed > 0
                                     THEN <<"Removed auth file(s)", run[p].removed>>
                                     ELSE <<"No auth files to remove">>]
    /\ UNCHANGED <<msFile, mcFile, atFile, now, seen>>

----------------------------------------------------------------------------
\* token-path

TokenPath(p) ==
    /\ run[p].pc = "idle"
    /\ run' = [run EXCEPT ![p] =
            [IdleRun EXCEPT !.cmd = "token-path", !.pc = "done", !.exit = 0,
                            !.out = <<"~/.local/share/nixcraft/auth/access_token">>]]
    /\ UNCHANGED <<msFile, mcFile, atFile, now, seen>>

----------------------------------------------------------------------------
\* nixcraft-skin: the commands that read the bearer token nixcraft-auth wrote

MC_SKINS_URL == "https://api.minecraftservices.com/minecraft/profile/skins"
MC_ACTIVE_CAPE_URL == "https://api.minecraftservices.com/minecraft/profile/capes/active"

Whitespace == {"", " ", "\n"}
\* str.strip() of the texts a token file can hold
Strip(text) == IF text \in Whitespace THEN "" ELSE text

Garbled == "garbled"
\* f.read(): the text of a file
ReadText(f) ==
    IF f.data = << >> THEN ""
    ELSE IF Len(f.data) = 1 THEN f.data[1]
    ELSE Garbled

\* load_access_token(): << >> is None
LoadAccessToken(f) == IF f.exists THEN <<Strip(ReadText(f))>> ELSE << >>

\* if not token
NotToken(token) == ~Has(token) \/ token[1] = ""

\* f"Bearer {token}"
Bearer(token) == [Authorization |-> <<"Bearer", IF Has(token) THEN token[1] ELSE "None">>]

NotAuthenticated == <<"Error: Not authenticated. Run 'nixcraft-auth login' first.">>

CapeId == "cape-1"
CapeArguments == {"none", CapeId}

\* 200 or 204, another status, no response
SkinResponses == {Ok(<< >>), Rejected(401, "Unauthorized"), NetDown}
CapesResponses ==
    {Ok([capes |-> c]) : c \in {<< >>, <<CapeId>>}}
    \cup {Rejected(401, "Unauthorized"), NetDown}

Echo(r, line) == [r EXCEPT !.err = Append(@, line)]

\* Mutant: upload_skin posts without testing the token.
UploadSkin_NoTokenTest(r, f, resp) ==
    LET token == LoadAccessToken(f)
        r1 == Logged(r, "skins", Bearer(token), resp, {})
    IN CASE resp.kind = "ok" -> [run |-> r1, ok |-> TRUE]
         [] resp.kind = "http" ->
                [run |-> Echo(r1, <<"Upload failed", resp.status, resp.text>>), ok |-> FALSE]
         [] OTHER ->
                [run |-> Echo(r1, <<"Error uploading skin", MC_SKINS_URL>>), ok |-> FALSE]

\* upload_skin(skin_path, variant), the POST answered resp when it is issued
UploadSkin(r, f, resp) ==
    LET token == LoadAccessToken(f)
        r1 == Logged(r, "skins", Bearer(token), resp, {})
    IN IF NotToken(token) THEN [run |-> Echo(r, NotAuthenticated), ok |-> FALSE]
       ELSE CASE resp.kind = "ok" -> [run |-> r1, ok |-> TRUE]
              [] resp.kind = "http" ->
                    [run |-> Echo(r1, <<"Upload failed", resp.status, resp.text>>), ok |-> FALSE]
              [] OTHER ->
                    [run |-> Echo(r1, <<"Error uploading skin", MC_SKINS_URL>>), ok |-> FALSE]

\* get_owned_capes(token), the GET answered resp
GetOwnedCapes(resp) == IF resp.kind = "ok" THEN resp.json.capes ELSE << >>

\* set_active_cape(cape_id), the DELETE or PUT answered resp when it is issued
SetActiveCape(r, f, cape_id, resp) ==
    LET token == LoadAccessToken(f)
        r1 == Logged(r, IF cape_id = "none" THEN "capes/active DELETE" ELSE "capes/active PUT",
                     Bearer(token), resp, {})
    IN IF NotToken(token) THEN [run |-> Echo(r, NotAuthenticated), ok |-> FALSE]
       ELSE CASE resp.kind = "ok" -> [run |-> r1, ok |-> TRUE]
              [] resp.kind = "http" -> [run |-> r1, ok |-> FALSE]
              [] OTHER ->
                    [run |-> Echo(r1, <<"Error setting cape", MC_ACTIVE_CAPE_URL>>), ok |-> FALSE]

\* the command ends: sys.exit(1) after the last line, or a return
SkinExit(r, ok, line) ==
    IF ok THEN [r EXCEPT !.pc = "done", !.exit = 0]
    ELSE [Echo(r, line) EXCEPT !.pc = "failed", !.exit = 1]

\* nixcraft-skin apply SKIN_PATH, the skin file found
Apply(p) ==
    /\ run[p].pc = "idle"
    /\ \E resp \in SkinResponses :
        LET r == [IdleRun EXCEPT !.cmd = "apply", !.pre = StoreSnapshot]
            u == UploadSkin(r, atFile, resp)
        IN run' = [run EXCEPT ![p] =
                SkinExit(u.run, u.ok, <<"Error: Failed to apply skin">>)]
    /\ UNCHANGED <<msFile, mcFile, atFile, now, seen>>

\* nixcraft-skin set-cape CAPE_ID_OR_NAME
SetCape(p) ==
    /\ run[p].pc = "idle"
    /\ \E cape_id_or_name \in CapeArguments, owned \in CapesResponses, resp \in SkinResponses :
        LET r == [IdleRun EXCEPT !.cmd = "set-cape", !.pre = StoreSnapshot]
            token == LoadAccessToken(atFile)
            r1 == Logged(r, "profile", Bearer(token), owned, {})
            capes == GetOwnedCapes(owned)
        IN run' = [run EXCEPT ![p] =
            IF cape_id_or_name = "none"
            THEN LET s == SetActiveCape(r, atFile, "none", resp)
                 IN SkinExit(s.run, s.ok, <<"Error: Failed to hide cape">>)
            ELSE IF NotToken(token) THEN SkinExit(r, FALSE, NotAuthenticated)
            ELSE IF \A i \in 1..Len(capes) : capes[i] # cape_id_or_name
            THEN SkinExit(r1, FALSE, <<"Error: Cape not found in your owned capes", cape_id_or_name>>)
            ELSE LET s == SetActiveCape(r1, atFile, cape_id_or_name, resp)
                 IN SkinExit(s.run, s.ok, <<"Error: Failed to set cape">>)]
    /\ UNCHANGED <<msFile, mcFile, atFile, now, seen>>

----------------------------------------------------------------------------
\* the process ends; the next command may start
Exit(p) ==
    /\ run[p].pc \in {"done", "failed"}
    /\ run' = [run EXCEPT ![p] = IdleRun]
    /\ seen' = IF run[p].cmd = "status" THEN Reported(run[p]) ELSE seen
    /\ UNCHANGED <<msFile, mcFile, atFile, now>>

Begin(p) ==
    \/ LoginBegin(p)
    \/ RefreshBegin(p)
    \/ Status(p)
    \/ LogoutBegin(p)
    \/ TokenPath(p)
    \/ Apply(p)
    \/ SetCape(p)

Step(p) ==
    \/ LoginExchange(p)
    \/ RefreshHop(p)
    \/ MsOpen(p) \/ MsWrite(p) \/ MsChmod(p)
    \/ XblHop(p) \/ XstsHop(p) \/ McAuthHop(p) \/ ProfileHop(p)
    \/ FlowReturn(p)
    \/ McOpen(p) \/ McWrite(p) \/ McChmod(p)
    \/ AtOpen(p) \/ AtWrite(p) \/ AtChmod(p)
    \/ LogoutUnlink(p) \/ LogoutEcho(p)
    \/ Exit(p)

\* One command at a time, in one process (spec section 5).
Main == CHOOSE p \in Procs : \A q \in Procs : p <= q

Next ==
    \/ Begin(Main)
    \/ Step(Main)
    \/ Tick

Spec == Init /\ [][Next]_vars

\* The same program, with the history of status reports kept.
InitWatched ==
    /\ EmptyStore
    /\ seen = Watched

SpecWatched == InitWatched /\ [][Next]_vars

\* Two login / refresh commands at once: each process runs one command on
\* the store the other is writing (spec section 5: no protection against
\* two concurrent invocations).  The clock stands still meanwhile.
RaceBegin(p) ==
    \* the processes are alike: the lower one starts first
    /\ \A q \in Procs : q < p => run[q].cmd # "none"
    /\ (LoginBegin(p) \/ RefreshBegin(p))

AuthStep(p) ==
    \/ RaceBegin(p)
    \/ LoginExchange(p)
    \/ RefreshHop(p)
    \/ MsOpen(p) \/ MsWrite(p) \/ MsChmod(p)
    \/ XblHop(p) \/ XstsHop(p) \/ McAuthHop(p) \/ ProfileHop(p)
    \/ FlowReturn(p)
    \/ McOpen(p) \/ McWrite(p) \/ McChmod(p)
    \/ AtOpen(p) \/ AtWrite(p) \/ AtChmod(p)

NextRace == \E p \in Procs : AuthStep(p)

SpecRace == Init /\ [][NextRace]_vars

----------------------------------------------------------------------------
\* Properties.

AuthRun(r) == r.cmd \in {"login", "refresh"}

\* the run ended because a hop failed: a non-2xx answer, no answer, or a
\* 2xx answer without a field the code reads
HopFailure(r) ==
    /\ AuthRun(r) /\ r.pc = "failed"
    /\ r.hops # << >> /\ r.exc # << >>
    /\ r.exc[1].type \in {"HTTPError", "ConnectionError", "KeyError"}

\* the hops of a run, in the order of the chain
ChainNames(r) ==
    <<IF r.cmd = "login" THEN "exchange" ELSE "refresh", "xbl", "xsts", "mcauth", "profile">>

\* full_auth_flow has returned and the run is saving (or has saved) mc_data
Saving(r) ==
    r.pc \in {"mc_open", "mc_write", "mc_chmod", "at_open", "at_write", "at_chmod", "done"}

\* all five hops were issued, in order, and answered 2xx
ChainComplete(r) ==
    /\ Len(r.hops) = 5
    /\ \A i \in 1..5 : r.hops[i].hop = ChainNames(r)[i] /\ r.hops[i].kind = "ok"

\* every hop after the first was sent exactly the credentials the earlier
\* hops of this run returned
ChainedInputs(t) ==
    /\ Len(t) >= 2 =>
        /\ Has(t[1].got.access_token)
        /\ t[2].sent.RpsTicket = <<"d=", t[1].got.access_token[1]>>
    /\ Len(t) >= 3 =>
        /\ Has(t[2].got.Token)
        /\ t[3].sent.UserTokens = <<t[2].got.Token[1]>>
    /\ Len(t) >= 4 =>
        /\ Has(t[2].got.uhs) /\ Has(t[3].got.Token)
        /\ t[4].sent.identityToken = <<"XBL3.0 x=", t[2].got.uhs[1], ";", t[3].got.Token[1]>>
    /\ Len(t) >= 5 =>
        /\ Has(t[4].got.access_token)
        /\ t[5].sent.Authorization = <<"Bearer ", t[4].got.access_token[1]>>

\* C1: when a hop of a login or refresh run fails, minecraft_token.json and
\* access_token are, once the run has ended, what they were when it started.
C1_FailedRunKeepsCredential ==
    \A p \in Procs :
        HopFailure(run[p]) =>
            /\ mcFile = run[p].pre[1].mc
            /\ atFile = run[p].pre[1].at

\* a refresh whose profile fetch failed, with a credential stored before it
C1_Witness ==
    /\ HopFailure(run[Main]) /\ run[Main].cmd = "refresh"
    /\ Len(run[Main].hops) = 5
    /\ mcFile.exists /\ atFile.exists

\* C2: in every state of the store, access_token and minecraft_token.json
\* are both absent, or both present with access_token holding exactly the
\* record's access_token.
C2_BearerMirrorsCredential ==
    \/ ~mcFile.exists /\ ~atFile.exists
    \/ /\ mcFile.exists /\ atFile.exists
       /\ mcFile.data # << >>
       /\ atFile.data = <<mcFile.data[1].access_token>>

\* C3: in login, from the moment the Xbox Live hop is about to be issued
\* until the chain has returned or failed, microsoft_token.json holds the
\* access token and the refresh token the exchange of this run returned.
C3_ProviderPairSavedBeforeXbl ==
    \A p \in Procs :
        LET r == run[p]
        IN (r.cmd = "login" /\ (r.pc = "xbl" \/ Len(r.trace) >= 2)) =>
            /\ r.trace[1].hop = "exchange" /\ r.trace[1].kind = "ok"
            /\ msFile.exists /\ msFile.data # << >>
            /\ msFile.data[1].access_token = r.trace[1].got.access_token[1]
            /\ msFile.data[1].refresh_token = Get(r.trace[1].got.refresh_token, Null)

\* a login that failed at XSTS or later, after an exchange that returned a
\* refresh token
C3_Witness ==
    /\ run[Main].cmd = "login" /\ HopFailure(run[Main])
    /\ Len(run[Main].trace) >= 3
    /\ Has(run[Main].trace[1].got.refresh_token)
    /\ msFile.data[1].refresh_token = run[Main].trace[1].got.refresh_token[1]

\* C4: a step of a login or refresh run changes minecraft_token.json or
\* access_token only when all five hops of that run have been answered 2xx
\* and full_auth_flow has returned; the only other steps that change them
\* are logout's.
C4_CredentialWrittenAfterChain ==
    [][(mcFile' # mcFile \/ atFile' # atFile) =>
        \E p \in Procs :
            /\ run'[p] # run[p]
            /\ \/ run[p].cmd = "logout"
               \/ /\ AuthRun(run[p]) /\ ChainComplete(run[p])
                  /\ Saving(run[p]) /\ run[p].mc_data # << >>]_vars

\* minecraft_token.json has just been written by a run whose chain is complete
C4_Witness ==
    /\ AuthRun(run[Main]) /\ run[Main].pc = "mc_chmod"
    /\ ChainComplete(run[Main])
    /\ mcFile.data = run[Main].mc_data

\* C5: the hops of a run are a prefix of token hop, Xbox Live, XSTS,
\* login_with_xbox, profile, each once; every hop but the last issued was
\* answered 2xx, and every hop was sent the credentials the earlier hops of
\* the same run returned.
C5_HopsInOrder ==
    \A p \in Procs :
        LET r == run[p]
        IN AuthRun(r) =>
            /\ Len(r.hops) <= 5
            /\ \A i \in 1..Len(r.hops) : r.hops[i].hop = ChainNames(r)[i]
            /\ \A i \in 1..(Len(r.hops) - 1) : r.hops[i].kind = "ok"
            /\ r.pc = "failed" \/ \A i \in 1..Len(r.hops) : r.hops[i].kind = "ok"
            /\ r.cmd = "login" /\ r.trace # << >> => r.trace[1].sent.code = r.code
            /\ ChainedInputs(r.trace)

\* all five hops issued and answered
C5_Witness ==
    /\ AuthRun(run[Main]) /\ run[Main].pc = "ret"
    /\ Len(run[Main].trace) = 5

\* C6: refresh never takes a grant code and never issues the exchange; its
\* token hop sends the refresh token found in microsoft_token.json, the
\* Xbox Live hop is sent the access token that hop returned, and a refresh
\* that reaches its saves has issued all four downstream hops, each on the
\* credentials this run obtained.
C6_RefreshRederivesChain ==
    \A p \in Procs :
        LET r == run[p]
        IN r.cmd = "refresh" =>
            /\ r.code = ""
            /\ \A i \in 1..Len(r.hops) : r.hops[i].hop # "exchange"
            /\ r.pc = "refresh_hop" =>
                /\ msFile.exists /\ r.stored = msFile.data
                /\ Truthy(r.stored[1].refresh_token)
            /\ r.trace # << >> =>
                /\ r.trace[1].hop = "refresh"
                /\ r.trace[1].sent.grant_type = "refresh_token"
                /\ r.trace[1].sent.refresh_token = r.stored[1].refresh_token
            /\ ChainedInputs(r.trace)
            /\ Saving(r) => ChainComplete(r)

\* a refresh whose chain is through, on a provider access token other than
\* the one that was stored
C6_Witness ==
    /\ run[Main].cmd = "refresh" /\ run[Main].pc = "ret"
    /\ Len(run[Main].trace) = 5
    /\ run[Main].trace[1].got.access_token[1] # run[Main].stored[1].access_token

\* the failures of the hops of a refresh other than a rejected refresh token
OtherRefreshFailures ==
    {HTTPError(400, MS_TOKEN_URL, "invalid_client"),
     HTTPError(400, XBL_AUTH_URL, "bad ticket"),
     HTTPError(401, XSTS_AUTH_URL, "XErr 2148916233"),
     HTTPError(403, MC_AUTH_URL, "forbidden"),
     HTTPError(404, MC_PROFILE_URL, "NOT_FOUND")}

\* the provider rejected the stored refresh token (400, invalid_grant)
RefreshTokenRejected(r) ==
    /\ r.cmd = "refresh" /\ r.pc = "failed"
    /\ Len(r.hops) = 1 /\ r.exc = <<HTTPError(400, MS_TOKEN_URL, "invalid_grant")>>

\* C7: a refresh whose refresh token is rejected exits 1 in a handled way,
\* with an outcome no other hop failure produces, issues no further hop and
\* leaves minecraft_token.json as it was.
C7_RejectedRefreshIsDistinct ==
    \A p \in Procs :
        LET r == run[p]
        IN RefreshTokenRejected(r) =>
            /\ r.exit = 1 /\ r.handled
            /\ mcFile = r.pre[1].mc
            /\ \A e \in OtherRefreshFailures :
                LET other == Raised(r, e)
                IN <<other.exit, other.handled, other.err>> # <<r.exit, r.handled, r.err>>

\* C8: once refresh has saved the provider record, its refresh_token is the
\* one the response supplied, or, when the response omitted it, the one
\* loaded at the start; either way it is a refresh token, also when the run
\* is done.
C8_RefreshTokenCarriedForward ==
    \A p \in Procs :
        LET r == run[p]
        IN /\ (/\ r.cmd = "refresh" /\ r.trace # << >>
               /\ r.trace[1].kind = "ok" /\ Has(r.trace[1].got.access_token)
               /\ r.pc \notin {"ms_open", "ms_write"}) =>
                /\ msFile.exists /\ msFile.data # << >>
                /\ msFile.data[1].refresh_token =
                        IF Has(r.trace[1].got.refresh_token)
                        THEN r.trace[1].got.refresh_token[1]
                        ELSE r.stored[1].refresh_token
           /\ (r.cmd = "refresh" /\ Saving(r)) =>
                /\ msFile.exists /\ msFile.data # << >>
                /\ Truthy(msFile.data[1].refresh_token)

\* the response omitted refresh_token and the stored one is still there
C8_Witness ==
    /\ run[Main].cmd = "refresh" /\ run[Main].pc = "xbl"
    /\ ~Has(run[Main].trace[1].got.refresh_token)
    /\ msFile.data[1].refresh_token = run[Main].stored[1].refresh_token
    /\ msFile.data[1].access_token # run[Main].stored[1].access_token

\* C9: the expires_at written to minecraft_token.json is the clock at which
\* login_with_xbox answered plus the expires_in it declared, or plus 86400
\* when it declared none.
C9_ExpiryFromIssueTime ==
    \A p \in Procs :
        LET r == run[p]
        IN (AuthRun(r) /\ r.pc = "mc_chmod" /\ mcFile.data # << >>) =>
            mcFile.data[1].expires_at = r.issuedAt + Get(r.declared, 86400)

\* what status printed for the record it read
StatusShown(r) == r.cmd = "status" /\ r.pc = "done" /\ r.out[1].logged_in

\* C10 as stated: status says Expired exactly when now >= expires_at, and
\* otherwise reports expires_at - now as the remaining time.
C10_StatusReportsExactRemaining ==
    \A p \in Procs :
        LET r == run[p]
        IN StatusShown(r) =>
            LET line == r.out[1].token
                remaining == mcFile.data[1].expires_at - r.now_read
            IN /\ line.state = "Expired" <=> r.now_read >= mcFile.data[1].expires_at
               /\ line.state # "Expired" =>
                    /\ line.state = "Valid"
                    /\ line.hours * 3600 + line.minutes * 60 = remaining

\* C10, amended: status says Expired exactly when now >= expires_at, and
\* otherwise Valid with expires_at - now rounded down to whole minutes,
\* as hours and minutes below 60.
C10_StatusReportsWholeMinutes ==
    \A p \in Procs :
        LET r == run[p]
        IN StatusShown(r) =>
            LET line == r.out[1].token
                remaining == mcFile.data[1].expires_at - r.now_read
                shown == line.hours * 3600 + line.minutes * 60
            IN /\ line.state = "Expired" <=> r.now_read >= mcFile.data[1].expires_at
               /\ line.state # "Expired" =>
                    /\ line.state = "Valid"
                    /\ line.hours >= 0 /\ line.minutes \in 0..59
                    /\ shown <= remaining /\ remaining < shown + 60

\* status on a valid credential with seconds to spare beyond the minute
C10_Witness ==
    /\ StatusShown(run[Main])
    /\ run[Main].out[1].token.state = "Valid"
    /\ run[Main].out[1].token.hours > 0
    /\ (mcFile.data[1].expires_at - run[Main].now_read) % 60 # 0

\* a status that has printed its "Token:" line, the status before it having
\* printed one too
StatusAfterStatus(r) ==
    /\ r.cmd = "status" /\ r.pc = "done" /\ ReportOf(r) # << >>
    /\ seen.last # << >>

\* the remaining time a report shows, in minutes
ShownMinutes(line) == line.hours * 60 + line.minutes

\* the later report shows no more time than the earlier one, and stays
\* expired once expired
NotLater(earlier, later) ==
    /\ ShownMinutes(later[1]) <= ShownMinutes(earlier[1])
    /\ earlier[1].state = "Expired" => later[1].state = "Expired"

\* C11 as stated: of two successive status calls with no refresh between
\* them, the later reports no more remaining time than the earlier, and
\* reports expired if the earlier did.
C11_StatusNeverGainsTimeWithoutRefresh ==
    \A p \in Procs :
        StatusAfterStatus(run[p]) => NotLater(seen.last, ReportOf(run[p]))

\* C11, amended: of two successive status calls with no login, refresh or
\* logout rewriting minecraft_token.json between them, the later reports no
\* more remaining time than the earlier, and reports expired if the earlier
\* did.
C11_StatusNeverGainsTimeOnSameCredential ==
    \A p \in Procs :
        (StatusAfterStatus(run[p]) /\ seen.by = "none") =>
            NotLater(seen.last, ReportOf(run[p]))

\* two reports on one credential, the later one a minute less than the first
C11_Witness ==
    /\ StatusAfterStatus(run[Main]) /\ seen.by = "none"
    /\ seen.last[1].state = "Valid"
    /\ ReportOf(run[Main])[1].state = "Valid"
    /\ ShownMinutes(ReportOf(run[Main])[1]) < ShownMinutes(seen.last[1])

\* how many of the files are there
Present(files) == Cardinality({i \in 1..Len(files) : files[i].exists})

\* C12: logout never fails; while its loop runs, the files it has passed
\* are gone and the others are as it found them; when it is done no file is
\* left (so that a logout started then finds none and removes 0), and the
\* count it reports is the number of files that were there when it began.
C12_LogoutRemovesWhatWasPresent ==
    \A p \in Procs :
        LET r == run[p]
            before == <<r.pre[1].ms, r.pre[1].mc, r.pre[1].at>>
            files == <<msFile, mcFile, atFile>>
        IN r.cmd = "logout" =>
            /\ r.pc \in {"unlink", "done"} /\ r.handled /\ r.exc = << >>
            /\ r.pc = "unlink" =>
                /\ \A i \in 1..3 :
                    files[i] = IF i < r.idx THEN AbsentFile ELSE before[i]
                /\ r.removed = Present(SubSeq(before, 1, r.idx - 1))
            /\ r.pc = "done" =>
                /\ \A i \in 1..3 : files[i] = AbsentFile
                /\ r.removed = Present(before)
                /\ r.exit = 0
                /\ r.out = IF Present(before) > 0
                           THEN <<"Removed auth file(s)", Present(before)>>
                           ELSE <<"No auth files to remove">>
                /\ Present(files) = 0

\* a logout that found the provider record only (a login that failed after
\* saving it) and removed 1
C12_Witness ==
    /\ run[Main].cmd = "logout" /\ run[Main].pc = "done"
    /\ run[Main].pre[1].ms.exists /\ ~run[Main].pre[1].mc.exists
    /\ ~run[Main].pre[1].at.exists
    /\ run[Main].removed = 1

\* a complete Token Store file: it is there, with content, owner-only
OwnerOnly(f) == f.exists /\ f.data # << >> /\ f.mode = Mode0600

\* save_tokens(.., "microsoft_token.json") of this run has returned
MsSaved(r) ==
    /\ AuthRun(r)
    /\ \/ r.pc \in {"xbl", "xsts", "mcauth", "profile", "ret"}
       \/ Saving(r)
       \/ r.pc = "failed" /\ Len(r.hops) >= 2

\* save_tokens(mc_data, "minecraft_token.json") of this run has returned
McSaved(r) == AuthRun(r) /\ r.pc \in {"at_open", "at_write", "at_chmod", "done"}

\* the write of access_token of this run is complete
AtSaved(r) == AuthRun(r) /\ r.pc = "done"

\* C13: once a login or refresh run has completed the write of one of the
\* three files, that file has mode 0600, new or overwritten.
C13_WrittenFilesOwnerOnly ==
    \A p \in Procs :
        /\ MsSaved(run[p]) => OwnerOnly(msFile)
        /\ McSaved(run[p]) => OwnerOnly(mcFile)
        /\ AtSaved(run[p]) => OwnerOnly(atFile)

\* a login that created the three files has completed
C13_Witness ==
    /\ run[Main].cmd = "login" /\ run[Main].pc = "done"
    /\ OwnerOnly(msFile) /\ OwnerOnly(mcFile) /\ OwnerOnly(atFile)
    /\ mcFile.data[1].access_token = atFile.data[1]

\* a mode that lets group or others in
Loose(mode) == mode % 64 # 0

\* C14: in no state does a Token Store file that holds token content have
\* a mode more permissive than 0600.
C14_NeverLooseWithContent ==
    \A f \in {msFile, mcFile, atFile} :
        (f.exists /\ f.data # << >>) => ~Loose(f.mode)

\* the three files are as the run found them
StoreUntouched(r) ==
    /\ msFile = r.pre[1].ms
    /\ mcFile = r.pre[1].mc
    /\ atFile = r.pre[1].at

\* microsoft_token.json holds no refresh token to start a refresh from:
\* no file, or a record whose refresh_token is null or empty
NoRefreshToken(f) ==
    ~f.exists \/ (f.data # << >> /\ ~Truthy(f.data[1].refresh_token))

\* C15: a refresh that found no provider record, or one whose refresh
\* token is null or empty, has exited 1 with its message, has issued no
\* request and has left the three files as they were.
C15_RefreshWithoutTokenFailsLocally ==
    \A p \in Procs :
        LET r == run[p]
        IN (r.cmd = "refresh" /\ r.pre # << >> /\ NoRefreshToken(r.pre[1].ms)) =>
            /\ r.pc = "failed" /\ r.exit = 1 /\ r.handled
            /\ r.err # << >>
            /\ r.hops = << >> /\ r.trace = << >>
            /\ StoreUntouched(r)

\* a refresh on a record whose refresh_token is null, with a credential
\* stored next to it
C15_Witness ==
    /\ run[Main].cmd = "refresh" /\ run[Main].pc = "failed"
    /\ run[Main].pre[1].ms.exists
    /\ run[Main].pre[1].ms.data[1].refresh_token = Null
    /\ mcFile.exists

\* C16: a login whose pasted URL has no code parameter has exited 1 with
\* its message, has issued no request and has left the three files as they
\* were; a login that issues a request has taken a code from the URL.
C16_LoginWithoutCodeFailsLocally ==
    \A p \in Procs :
        LET r == run[p]
        IN r.cmd = "login" =>
            /\ r.code = "" =>
                /\ r.pc = "failed" /\ r.exit = 1 /\ r.handled
                /\ r.err # << >>
                /\ r.hops = << >> /\ r.trace = << >>
                /\ StoreUntouched(r)
            /\ r.hops # << >> => \E a \in Accounts : r.code = GrantCode[a]

\* a login without code on a store that holds a credential
C16_Witness ==
    /\ run[Main].cmd = "login" /\ run[Main].code = ""
    /\ run[Main].pc = "failed"
    /\ msFile.exists /\ mcFile.exists /\ atFile.exists

\* C17: a login or refresh run in which a hop failed (non-2xx answer, no
\* answer, or a 2xx answer lacking a field) has ended in the command's
\* except clause, with exit code 1 and the command's failure message; a run
\* that went through, and every status, logout and token-path, exits 0.
C17_EveryFailureHandled ==
    \A p \in Procs :
        LET r == run[p]
        IN /\ HopFailure(r) =>
                /\ r.exit = 1 /\ r.handled
                /\ r.err # << >>
                /\ r.err[1][1] = IF r.cmd = "login" THEN "Authentication failed"
                                 ELSE "Refresh failed"
           /\ (AuthRun(r) /\ r.pc = "done") => r.exit = 0
           /\ (r.cmd \in {"status", "logout", "token-path"}
                    /\ r.pc \in {"done", "failed"}) => r.exit = 0

\* C18: when a hop of a login or refresh run is answered non-2xx, the body
\* of that answer is among what the command prints with the failure.
C18_RejectionBodySurfaced ==
    \A p \in Procs :
        LET r == run[p]
        IN (HopFailure(r) /\ r.exc[1].type = "HTTPError") =>
            \E i \in 1..Len(r.err) :
                r.err[i][Len(r.err[i])] = r.exc[1].text

\* no command is running
AtRest == \A p \in Procs : run[p].pc \in {"idle", "done", "failed"}

\* C19: between commands, when microsoft_token.json and minecraft_token.json
\* are both there, the provider pair belongs to the account of the
\* credential (a refresh on it would renew that account's credential).
C19_OneAccountStored ==
    (AtRest /\ msFile.exists /\ msFile.data # << >>
            /\ mcFile.exists /\ mcFile.data # << >>) =>
        /\ AcctOf(msFile.data[1].access_token) = AcctOf(mcFile.data[1].access_token)
        /\ ProfileOf[AcctOf(msFile.data[1].access_token)].name = mcFile.data[1].username

\* C20: status ends in its one step, with no request issued and the three
\* files as it found them, whatever the credential; logout and token-path
\* issue no request; the refresh grant is sent by the refresh command only.
C20_StatusReadsOnly ==
    \A p \in Procs :
        LET r == run[p]
        IN /\ r.cmd = "status" =>
                /\ r.pc \in {"done", "failed"}
                /\ r.hops = << >> /\ r.trace = << >>
                /\ StoreUntouched(r)
           /\ r.cmd \in {"logout", "token-path"} => r.hops = << >>
           /\ \A i \in 1..Len(r.hops) :
                r.hops[i].hop = "refresh" => r.cmd = "refresh"

\* status has reported an expired credential while a refresh token is stored
C20_Witness ==
    /\ StatusShown(run[Main])
    /\ run[Main].out[1].token.state = "Expired"
    /\ msFile.exists /\ Truthy(msFile.data[1].refresh_token)
    /\ mcFile.data[1].expires_at <= now

\* the credentials that live within one run only: grant codes, Xbox Live
\* tokens, user hashes, XSTS tokens
Transient ==
    UNION {{GrantCode[a]} \cup XblTokens[a] \cup UserHash[a] \cup XstsTokens[a] :
            a \in Accounts}

\* the strings the three files hold
PersistedValues ==
    (IF msFile.data = << >> THEN {}
     ELSE {msFile.data[1].access_token, msFile.data[1].refresh_token})
    \cup (IF mcFile.data = << >> THEN {}
          ELSE {mcFile.data[1].access_token, mcFile.data[1].username,
                mcFile.data[1].uuid, mcFile.data[1].skins})
    \cup (IF atFile.data = << >> THEN {} ELSE {atFile.data[1]})

\* C21: no file of the store holds a grant code, an Xbox Live token, a user
\* hash or an XSTS token; a process holds one only while it runs the
\* command that obtained it: the code within login, the others between the
\* hop that answered them and the return of full_auth_flow.
C21_TransientsNeverPersisted ==
    /\ PersistedValues \cap Transient = {}
    /\ \A p \in Procs :
        LET r == run[p]
        IN /\ r.code # "" => r.cmd = "login"
           /\ r.xbl_token # "" =>
                /\ r.pc \in {"xsts", "mcauth", "profile", "ret", "failed"}
                /\ r.xbl_token = r.trace[2].got.Token[1]
                /\ r.user_hash = r.trace[2].got.uhs[1]
           /\ r.xsts_token # "" =>
                /\ r.pc \in {"mcauth", "profile", "ret", "failed"}
                /\ r.xsts_token = r.trace[3].got.Token[1]
           /\ r.pc \in {"idle", "done"} \/ Saving(r) =>
                r.xbl_token = "" /\ r.user_hash = "" /\ r.xsts_token = ""

\* a refresh went through all hops and has rewritten the three files
C21_Witness ==
    /\ run[Main].cmd = "refresh" /\ run[Main].pc = "done"
    /\ ChainComplete(run[Main])
    /\ msFile.data # << >> /\ mcFile.data # << >> /\ atFile.data # << >>

\* C22: when a login has completed, minecraft_token.json holds the
\* access_token login_with_xbox answered in this run and, as username and
\* uuid, the name and id the profile hop answered in this run, and
\* access_token holds that access_token and nothing else.
C22_LoginStoresWhatWasIssued ==
    \A p \in Procs :
        LET r == run[p]
        IN (r.cmd = "login" /\ r.pc = "done") =>
            /\ r.minted # << >>
            /\ Len(mcFile.data) = 1
            /\ mcFile.data[1].access_token = r.minted[1].access_token[1]
            /\ mcFile.data[1].username = r.minted[1].name[1]
            /\ mcFile.data[1].uuid = r.minted[1].id[1]
            /\ atFile.data = <<r.minted[1].access_token[1]>>

\* a login for account B has completed
C22_Witness ==
    /\ run[Main].cmd = "login" /\ run[Main].pc = "done"
    /\ run[Main].minted # << >>
    /\ run[Main].minted[1].name = <<"Alex">>
    /\ mcFile.data[1].username = "Alex"
    /\ atFile.data[1] \in McAccess["B"]

\* the file holds exactly what the last write to it handed over
HoldsLastWrite(f) == f.exists => f.data = f.written

\* both processes have run a login or refresh to its end
RaceOver ==
    \A p \in Procs : AuthRun(run[p]) /\ run[p].pc \in {"done", "failed"}

\* both processes have completed a login or refresh
BothSucceeded == \A p \in Procs : AuthRun(run[p]) /\ run[p].pc = "done"

\* C23: when two login / refresh runs on one store have ended, each file
\* holds what the last write to it handed over; when both have completed,
\* minecraft_token.json and access_token are those of one of the two runs,
\* access_token holding the record's access_token.
C23_RaceLeavesOneRunsCredential ==
    /\ RaceOver =>
        /\ HoldsLastWrite(msFile)
        /\ HoldsLastWrite(mcFile)
        /\ HoldsLastWrite(atFile)
    /\ BothSucceeded =>
        /\ Len(mcFile.data) = 1 /\ Len(atFile.data) = 1
        /\ atFile.data = <<mcFile.data[1].access_token>>
        /\ \E p \in Procs :
            /\ mcFile.data = run[p].mc_data
            /\ atFile.data = <<run[p].mc_data[1].access_token>>

\* the refresh token a refresh has to leave in microsoft_token.json: the
\* one its token hop answered, or the one it loaded
RefreshTokenDue(r) ==
    IF Has(r.trace[1].got.refresh_token) THEN r.trace[1].got.refresh_token[1]
    ELSE r.stored[1].refresh_token

\* C24: a refresh leaves microsoft_token.json as it found it until its token
\* hop has succeeded; from the moment the Xbox Live hop is about to be
\* issued the file holds the new access token and the new (or kept) refresh
\* token; and when a later hop has failed, minecraft_token.json and
\* access_token are the old ones while a refresh started then would load
\* and send that refresh token.
C24_RefreshSavesPairBeforeChain ==
    \A p \in Procs :
        LET r == run[p]
        IN r.cmd = "refresh" =>
            /\ (r.pc = "refresh_hop" \/ (r.pc = "failed" /\ Len(r.hops) = 1)) =>
                    msFile = r.pre[1].ms
            /\ (r.pc = "xbl" \/ Len(r.trace) >= 2) =>
                /\ r.trace[1].hop = "refresh" /\ r.trace[1].kind = "ok"
                /\ Len(msFile.data) = 1
                /\ msFile.data[1].access_token = r.trace[1].got.access_token[1]
                /\ msFile.data[1].refresh_token = RefreshTokenDue(r)
            /\ (HopFailure(r) /\ Len(r.hops) >= 2) =>
                /\ mcFile = r.pre[1].mc /\ atFile = r.pre[1].at
                /\ LET l == LoadTokens(msFile)
                   IN /\ ~l.raised /\ Has(l.val)
                      /\ Truthy(l.val[1].refresh_token)
                      /\ RefreshRequest(l.val[1].refresh_token).refresh_token
                            = RefreshTokenDue(r)

\* a refresh whose token hop rotated the refresh token has failed at a
\* later hop, the old credential still stored
C24_Witness ==
    /\ run[Main].cmd = "refresh" /\ HopFailure(run[Main])
    /\ Len(run[Main].hops) >= 3
    /\ Has(run[Main].trace[1].got.refresh_token)
    /\ run[Main].trace[1].got.refresh_token[1] # run[Main].stored[1].refresh_token
    /\ msFile.data[1].refresh_token = run[Main].trace[1].got.refresh_token[1]
    /\ mcFile.exists /\ Len(mcFile.data) = 1

\* C25: once a login whose exchange response carried no refresh_token has
\* saved its record, microsoft_token.json holds that response's access
\* token and no refresh token, whatever was stored before; and a refresh
\* started over a record without refresh token fails with "No refresh token
\* found", exit code 1, no request issued and the store left as it was.
C25_LoginReplacesRecordWholesale ==
    \A p \in Procs :
        LET r == run[p]
        IN /\ ( /\ r.cmd = "login"
                /\ r.pc = "xbl" \/ Len(r.trace) >= 2
                /\ ~Has(r.trace[1].got.refresh_token) ) =>
                /\ Len(msFile.data) = 1
                /\ msFile.data[1].access_token = r.trace[1].got.access_token[1]
                /\ msFile.data[1].refresh_token = Null
                /\ ~RefreshTokenStored
           /\ ( /\ r.cmd = "refresh"
                /\ r.pre # << >>
                /\ r.pre[1].ms.exists /\ Len(r.pre[1].ms.data) = 1
                /\ r.pre[1].ms.data[1].refresh_token = Null ) =>
                /\ r.pc = "failed" /\ r.exit = 1 /\ r.handled
                /\ r.err = << <<"No refresh token found. Please run 'nixcraft-auth login' first.">> >>
                /\ r.hops = << >>
                /\ StoreUntouched(r)

\* a login that started over a stored refresh token and was answered
\* without one has saved its record
C25_Witness ==
    /\ run[Main].cmd = "login" /\ run[Main].had_refresh
    /\ Len(run[Main].trace) >= 2
    /\ ~Has(run[Main].trace[1].got.refresh_token)
    /\ msFile.exists /\ msFile.data # << >>
    /\ msFile.data[1].refresh_token = Null

\* none of the three artifacts exists
AllAbsent == ~msFile.exists /\ ~mcFile.exists /\ ~atFile.exists

\* what the commands do over a store without artifacts
NothingToUse ==
    \A p \in Procs :
        LET r == run[p]
        IN /\ (r.cmd = "status" /\ r.pc = "done") =>
                r.out = <<[logged_in |-> FALSE]>> /\ r.exit = 0
           /\ r.cmd = "refresh" =>
                /\ r.pc = "failed" /\ r.exit = 1 /\ r.hops = << >>
                /\ r.err = << <<"No refresh token found. Please run 'nixcraft-auth login' first.">> >>
           /\ r.cmd \in {"apply", "set-cape"} =>
                /\ r.pc = "failed" /\ r.exit = 1 /\ r.hops = << >>
                /\ r.err[1] = NotAuthenticated
           /\ ~Has(LoadAccessToken(atFile))

\* a step that ends the absence is the first write of a login whose
\* exchange hop was answered with an access token
EndedByLogin ==
    (AllAbsent /\ ~AllAbsent') =>
        \E p \in Procs :
            /\ run[p].cmd = "login" /\ run[p].pc = "ms_open"
            /\ run[p].hops = <<[hop |-> "exchange", kind |-> "ok"]>>
            /\ msFile'.exists /\ ~mcFile'.exists /\ ~atFile'.exists

\* C26: when a logout has run to completion no artifact exists; while none
\* exists status reports not logged in, refresh fails with no request
\* issued, the skin tool reads no bearer token and its apply and set-cape
\* commands fail with no request issued; and the absence ends only with the
\* first write of a login whose exchange succeeded.
C26_NothingAfterLogoutUntilLogin ==
    /\ [](\A p \in Procs :
            (run[p].cmd = "logout" /\ run[p].pc = "done") => AllAbsent)
    /\ [](AllAbsent => NothingToUse)
    /\ [][EndedByLogin]_vars

\* a logout over a full store has completed
C26_Witness ==
    /\ run[Main].cmd = "logout" /\ run[Main].pc = "done"
    /\ run[Main].pre[1].ms.exists /\ run[Main].pre[1].mc.exists
    /\ run[Main].pre[1].at.exists
    /\ run[Main].removed = 3
    /\ AllAbsent

====
